---- MODULE Spec2Model ----
(***************************************************************************)
(* The model module of forkify (src/js/model.js): the application state,   *)
(* the recipe normalizer, search and pagination, the servings scaler,      *)
(* bookmark persistence in localStorage and recipe upload, together with   *)
(* the AJAX helper (src/js/helpers.js) and the handlers of the controller  *)
(* (src/js/controller.js) that drive the store.                            *)
(*                                                                         *)
(* JavaScript values are encoded as follows.                               *)
(*  - A number is a record [k, n, d]: k = "num" is the rational n/d in     *)
(*    lowest terms (IEEE rounding of inexact quotients is not modelled),   *)
(*    k = "NaN", k = "Inf" (n is the sign), k = "null" is the JSON null    *)
(*    found where a number is expected, k = "undefined" is a missing one.  *)
(*  - An object reference is a record [ref, val]: ref = "cur" is the very  *)
(*    object state.recipe points to, ref = "own" is any other object, of   *)
(*    value val.  The module only ever writes through state.recipe, so an  *)
(*    object that is not the current recipe never changes again.           *)
(***************************************************************************)
EXTENDS Integers, Sequences, FiniteSets, TLC

VARIABLES
    recipe,     \* state.recipe: the value of the current recipe object
    bookmarks,  \* state.bookmarks: sequence of object references
    search,     \* state.search: [query, results, resultsPerPage, page]
    storage,    \* localStorage item 'bookmarks': [has, items]
    calls,      \* the requests in flight, in issue order: the async calls
                \* of the module awaiting AJAX and the abandoned requests
    uploads,    \* number of recipes the API has created so far
    last        \* the operation that ran last: its arguments and outcome

vars == <<recipe, bookmarks, search, storage, calls, uploads, last>>

-----------------------------------------------------------------------------
(* Bounds of the model *)

MaxResults == 25    \* longest search response
MaxPage == 4        \* page arguments range over -MaxPage..MaxPage
MaxBookmarks == 2   \* addBookmark is not called on a longer list
MaxCalls == 2       \* calls in flight at once
MaxUploads == 2     \* recipes created through the API
MaxNum == 8         \* largest numerator or denominator of a quantity
MaxServings == 8    \* updateServings is called with 0..MaxServings
MaxFieldLen == 2    \* longest free-form ingredient field of the upload form

(* Program constants *)

RESULTS_PER_PAGE == 10

-----------------------------------------------------------------------------
(* JavaScript numbers *)

Abs(x) == IF x < 0 THEN -x ELSE x
Sign(x) == IF x < 0 THEN -1 ELSE 1
Min2(a, b) == IF a < b THEN a ELSE b
Max2(a, b) == IF a > b THEN a ELSE b

RECURSIVE GCD(_, _)
GCD(a, b) == IF b = 0 THEN a ELSE GCD(b, a % b)

NaN == [k |-> "NaN", n |-> 0, d |-> 1]
Inf(s) == [k |-> "Inf", n |-> s, d |-> 1]
Null == [k |-> "null", n |-> 0, d |-> 1]
UndefinedNum == [k |-> "undefined", n |-> 0, d |-> 1]

\* the rational n/d (d # 0) in lowest terms with a positive denominator
Frac(n, d) ==
    LET g == GCD(Abs(n), Abs(d))
    IN  [k |-> "num", n |-> (Sign(d) * n) \div g, d |-> Abs(d) \div g]

Num(n) == [k |-> "num", n |-> n, d |-> 1]

IsInteger(x) == x.k = "num" /\ x.d = 1

\* ToNumber of a value found where a number is expected: null -> 0,
\* undefined -> NaN
ToNumber(x) ==
    CASE x.k = "null" -> Num(0)
      [] x.k = "undefined" -> NaN
      [] OTHER -> x

\* x * y
Mul(x, y) ==
    LET a == ToNumber(x)
        b == ToNumber(y)
    IN  CASE a.k = "NaN" \/ b.k = "NaN" -> NaN
          [] a.k = "Inf" /\ b.k = "Inf" -> Inf(a.n * b.n)
          [] a.k = "Inf" -> IF b.n = 0 THEN NaN ELSE Inf(a.n * Sign(b.n))
          [] b.k = "Inf" -> IF a.n = 0 THEN NaN ELSE Inf(b.n * Sign(a.n))
          [] OTHER -> Frac(a.n * b.n, a.d * b.d)

\* x / y
Div(x, y) ==
    LET a == ToNumber(x)
        b == ToNumber(y)
    IN  CASE a.k = "NaN" \/ b.k = "NaN" -> NaN
          [] a.k = "Inf" /\ b.k = "Inf" -> NaN
          [] a.k = "Inf" -> Inf(a.n * Sign(b.n))
          [] b.k = "Inf" -> Num(0)
          [] b.n = 0 -> IF a.n = 0 THEN NaN ELSE Inf(Sign(a.n))
          [] OTHER -> Frac(a.n * b.d, a.d * b.n)

-----------------------------------------------------------------------------
(* JSON values of the API: a scalar that should be a number arrives as a   *)
(* number or as a string                                                   *)

JNumber(n) == [t |-> "number", n |-> n, s |-> ""]
JString(s) == [t |-> "string", n |-> 0, s |-> s]

DecimalStrings == ("1" :> 1) @@ ("2" :> 2) @@ ("4" :> 4) @@ ("45" :> 45)

\* Number(s) for a string s
StringToNumber(s) ==
    CASE s = "" -> Num(0)
      [] s \in DOMAIN DecimalStrings -> Num(DecimalStrings[s])
      [] OTHER -> NaN

\* the unary plus of createRecipeObject: +x
UnaryPlus(j) == IF j.t = "number" THEN Num(j.n) ELSE StringToNumber(j.s)

\* an optional string property: absent, or present with value s
Absent == [has |-> FALSE, s |-> ""]
Present(s) == [has |-> TRUE, s |-> s]

\* ...(recipe.key && { key: recipe.key }): the key is copied when truthy
SpreadKey(key) == IF key.has /\ key.s # "" THEN key ELSE Absent

-----------------------------------------------------------------------------
(* Search and pagination *)

Queries == {"pizza", "pasta"}
PageArgs == (0 - MaxPage)..MaxPage

\* the raw recipe at position i of the API's response to query q
RawResult(q, i) ==
    [id |-> <<q, i>>, title |-> <<"title", q, i>>, publisher |-> "pub",
     image_url |-> <<"img", q, i>>,
     key |-> CASE i % 3 = 0 -> Present("k")
               [] i % 3 = 1 -> Absent
               [] OTHER -> Present("")]

\* the responses the API may give to a search: data.recipes
SearchResponses(q) ==
    { [i \in 1..n |-> RawResult(q, i)] :
        n \in {0, 3, RESULTS_PER_PAGE, RESULTS_PER_PAGE + 1, MaxResults} }

\* the summary stored for one raw recipe of a search response
Summary(r) ==
    [id |-> r.id, title |-> r.title, publisher |-> r.publisher,
     image |-> r.image_url, key |-> SpreadKey(r.key)]

\* Array.prototype.slice(start, end): negative indices count from the end
Slice(s, start, end) ==
    LET len == Len(s)
        from == IF start < 0 THEN Max2(len + start, 0) ELSE Min2(start, len)
        to == IF end < 0 THEN Max2(len + end, 0) ELSE Min2(end, len)
    IN  SubSeq(s, from + 1, to)

\* the value getSearchResultsPage(page) returns
getSearchResultsPage(results, page, perPage) ==
    LET start == (page - 1) * perPage
        end == page * perPage
    IN  Slice(results, start, end)

\* the call follows a getSearchResultsPage call with the same page
Again(page) == last.op = "getSearchResultsPage" /\ last.arg = page

\* getSearchResultsPage with the slip of slicing by the page stored before
\* the call
GetSearchResultsPageStale(page) ==
    /\ search' = [search EXCEPT !.page = page]
    /\ last' = [op |-> "getSearchResultsPage", arg |-> page,
                ret |-> getSearchResultsPage(search.results, search.page,
                                             search.resultsPerPage),
                again |-> Again(page),
                prev |-> IF Again(page) THEN last.ret ELSE <<>>]
    /\ UNCHANGED <<recipe, bookmarks, storage, calls, uploads>>

\* getSearchResultsPage(page) (again and prev record, for the properties
\* only, what the call before returned for the same page)
GetSearchResultsPage(page) ==
    /\ search' = [search EXCEPT !.page = page]
    /\ last' = [op |-> "getSearchResultsPage", arg |-> page,
                ret |-> getSearchResultsPage(search.results, page, search.resultsPerPage),
                again |-> Again(page),
                prev |-> IF Again(page) THEN last.ret ELSE <<>>]
    /\ UNCHANGED <<recipe, bookmarks, storage, calls, uploads>>

\* getSearchResultsPage(): the page defaults to state.search.page
GetSearchResultsPageDefault == GetSearchResultsPage(search.page)

\* getSearchResults(query) up to its await: the query is recorded and the
\* request is issued, AJAX waiting in its race of the request against the
\* timer (pre records, for the properties only, the search state the call
\* found)
GetSearchResultsCall(query) ==
    /\ Len(calls) < MaxCalls
    /\ search' = [search EXCEPT !.query = query]
    /\ calls' = Append(calls, [op |-> "getSearchResults", arg |-> query,
                               phase |-> "race", timer |-> "armed"])
    /\ last' = [op |-> "getSearchResults:call", arg |-> query, pre |-> search]
    /\ UNCHANGED <<recipe, bookmarks, storage, uploads>>

RemoveAt(s, i) == SubSeq(s, 1, i - 1) \o SubSeq(s, i + 1, Len(s))

\* getSearchResults resumes with the parsed response
GetSearchResultsOk(i, recipes) ==
    /\ calls[i].op = "getSearchResults"
    /\ search' = [search EXCEPT
                    !.results = [j \in 1..Len(recipes) |-> Summary(recipes[j])],
                    !.page = 1]
    /\ calls' = RemoveAt(calls, i)
    /\ last' = [op |-> "getSearchResults", arg |-> calls[i].arg,
                result |-> "ok", resp |-> recipes]
    /\ UNCHANGED <<recipe, bookmarks, storage, uploads>>

NetworkErrors == {"TimeoutError", "HttpError"}

\* getSearchResults with the slip of resetting the results and the page in
\* its catch block
GetSearchResultsFailResets(i, err) ==
    /\ calls[i].op = "getSearchResults"
    /\ search' = [search EXCEPT !.results = <<>>, !.page = 1]
    /\ calls' = RemoveAt(calls, i)
    /\ last' = [op |-> "getSearchResults", arg |-> calls[i].arg, result |-> err]
    /\ UNCHANGED <<recipe, bookmarks, storage, uploads>>

\* getSearchResults resumes with the AJAX failure and rethrows it
GetSearchResultsFail(i, err) ==
    /\ calls[i].op = "getSearchResults"
    /\ calls' = RemoveAt(calls, i)
    /\ last' = [op |-> "getSearchResults", arg |-> calls[i].arg, result |-> err]
    /\ UNCHANGED <<recipe, bookmarks, search, storage, uploads>>

-----------------------------------------------------------------------------
(* Recipes *)

Undefined == "undefined"

RecipeIds == {"a", "b"}

\* the identifier the API gives to the n-th recipe created through it
UploadId(n) == "u" \o ToString(n)

Ingredient(q, u, d) == [quantity |-> q, unit |-> u, description |-> d]

\* data.recipe of the API's response to GET {API_URL}{id}: the API sends
\* cooking_time and servings as numbers or as numeric strings
RawRecipes(id) ==
    IF id = "a"
    THEN { [id |-> id, title |-> "A", publisher |-> "pub", source_url |-> "src-a",
            image_url |-> "img-a", cooking_time |-> JNumber(45),
            servings |-> JNumber(4),
            ingredients |-> <<Ingredient(Num(2), "kg", "flour"),
                              Ingredient(Null, "", "salt")>>,
            key |-> Absent] }
    ELSE { [id |-> id, title |-> "B", publisher |-> "pub", source_url |-> "src-b",
            image_url |-> "img-b", cooking_time |-> JString("45"),
            servings |-> JString("4"),
            ingredients |-> <<Ingredient(Num(1), "cup", "rice")>>,
            key |-> IF id \in RecipeIds THEN Present("") ELSE Present("k")] }

\* createRecipeObject(recipe)
createRecipeObject(raw) ==
    [id |-> raw.id,
     title |-> raw.title,
     publisher |-> raw.publisher,
     sourceUrl |-> raw.source_url,
     image |-> raw.image_url,
     cookingTime |-> UnaryPlus(raw.cooking_time),
     servings |-> UnaryPlus(raw.servings),
     ingredients |-> raw.ingredients,
     key |-> SpreadKey(raw.key),
     bookmarked |-> Undefined]

\* state.recipe = {} of the initial state: every property is undefined
EmptyRecipe ==
    [id |-> Undefined, title |-> Undefined, publisher |-> Undefined,
     sourceUrl |-> Undefined, image |-> Undefined, cookingTime |-> UndefinedNum,
     servings |-> UndefinedNum, ingredients |-> <<>>, key |-> Absent,
     bookmarked |-> Undefined]

\* object references
Cur == [ref |-> "cur", val |-> EmptyRecipe]
Own(v) == [ref |-> "own", val |-> v]

\* the value of the object a reference points to, state.recipe being rec
Deref(rec, r) == IF r.ref = "cur" THEN rec ELSE r.val

\* the values of the objects of a bookmark array
Values(rec, bms) == [i \in 1..Len(bms) |-> Deref(rec, bms[i])]

\* state.recipe is about to point to a new object: the references to the
\* old one now point to an object other than the current recipe
Freeze(rec, bms) ==
    [i \in 1..Len(bms) |-> IF bms[i].ref = "cur" THEN Own(rec) ELSE bms[i]]

-----------------------------------------------------------------------------
(* Bookmark persistence *)

\* JSON.stringify of a number: NaN and the infinities are written as null
StringifyNumber(x) == IF x.k \in {"NaN", "Inf"} THEN Null ELSE x

\* JSON.stringify of one recipe object, as the JSON object it writes (a
\* property whose value is undefined is left out, and stays undefined)
StringifyRecipe(v) ==
    [v EXCEPT
        !.cookingTime = StringifyNumber(@),
        !.servings = StringifyNumber(@),
        !.ingredients = [i \in 1..Len(@) |->
                            [@[i] EXCEPT !.quantity = StringifyNumber(@)]]]

\* JSON.stringify(state.bookmarks): the JSON array written
JSONStringify(vals) == [i \in 1..Len(vals) |-> StringifyRecipe(vals[i])]

\* JSON.parse of a stored array: fresh objects, none of them state.recipe
JSONParse(items) == [i \in 1..Len(items) |-> Own(items[i])]

NoItem == [has |-> FALSE, items |-> <<>>]

\* storeBookmarks(): the item 'bookmarks' after localStorage.setItem
storeBookmarks(rec, bms) ==
    [has |-> TRUE, items |-> JSONStringify(Values(rec, bms))]

\* init(): state.bookmarks after the module has loaded
init(item) == IF ~item.has THEN <<>> ELSE JSONParse(item.items)

\* bookmarks.some(bookmark => bookmark.id === id)
SomeBookmark(rec, bms, id) == \E i \in 1..Len(bms) : Deref(rec, bms[i]).id = id

\* bookmarks.findIndex(bookmark => bookmark.id === id): 0-based, -1 if none
FindIndex(rec, bms, id) ==
    IF SomeBookmark(rec, bms, id)
    THEN (CHOOSE i \in 1..Len(bms) :
            /\ Deref(rec, bms[i]).id = id
            /\ \A j \in 1..(i - 1) : Deref(rec, bms[j]).id # id) - 1
    ELSE -1

\* Array.prototype.splice(index, 1): a negative index counts from the end
Splice1(s, index) ==
    LET len == Len(s)
        start == IF index < 0 THEN Max2(len + index, 0) ELSE Min2(index, len)
    IN  IF start < len THEN RemoveAt(s, start + 1) ELSE s

\* addBookmark with the slip of not flagging the current recipe
addBookmarkNoFlag(st, r) ==
    LET bms == Append(st.bookmarks, r)
    IN  [recipe |-> st.recipe, bookmarks |-> bms,
         storage |-> storeBookmarks(st.recipe, bms)]

\* addBookmark(recipe) on the store st = [recipe, bookmarks, storage]
addBookmark(st, r) ==
    LET rec == IF Deref(st.recipe, r).id = st.recipe.id
               THEN [st.recipe EXCEPT !.bookmarked = "true"]
               ELSE st.recipe
        bms == Append(st.bookmarks, r)
    IN  [recipe |-> rec, bookmarks |-> bms, storage |-> storeBookmarks(rec, bms)]

\* deleteBookmark with the slip of removing the head of the array, whatever
\* the index found
deleteBookmarkShift(st, r) ==
    LET id == Deref(st.recipe, r).id
        bms == Splice1(st.bookmarks, 0)
        rec == IF id = st.recipe.id
               THEN [st.recipe EXCEPT !.bookmarked = "false"]
               ELSE st.recipe
    IN  [recipe |-> rec, bookmarks |-> bms, storage |-> storeBookmarks(rec, bms)]

\* deleteBookmark(recipe) on the store st = [recipe, bookmarks, storage]
deleteBookmark(st, r) ==
    LET id == Deref(st.recipe, r).id
        index == FindIndex(st.recipe, st.bookmarks, id)
        bms == Splice1(st.bookmarks, index)
        rec == IF id = st.recipe.id
               THEN [st.recipe EXCEPT !.bookmarked = "false"]
               ELSE st.recipe
    IN  [recipe |-> rec, bookmarks |-> bms, storage |-> storeBookmarks(rec, bms)]

Store == [recipe |-> recipe, bookmarks |-> bookmarks, storage |-> storage]

\* the recipe objects a caller may hand to addBookmark and deleteBookmark:
\* the current recipe, an object of the bookmark array, or another recipe
BookmarkArgs ==
    (IF recipe.id # Undefined THEN {Cur} ELSE {})
        \cup {bookmarks[i] : i \in 1..Len(bookmarks)}
        \cup {Own(createRecipeObject(raw)) : raw \in RawRecipes("b")}

AddBookmark(r) ==
    /\ Len(bookmarks) < MaxBookmarks
    /\ LET st == addBookmark(Store, r)
       IN  /\ recipe' = st.recipe
           /\ bookmarks' = st.bookmarks
           /\ storage' = st.storage
    /\ last' = [op |-> "addBookmark", arg |-> r, pre |-> Values(recipe, bookmarks)]
    /\ UNCHANGED <<search, calls, uploads>>

DeleteBookmark(r) ==
    /\ LET st == deleteBookmark(Store, r)
       IN  /\ recipe' = st.recipe
           /\ bookmarks' = st.bookmarks
           /\ storage' = st.storage
    /\ last' = [op |-> "deleteBookmark", arg |-> r,
                undo |-> last.op = "addBookmark" /\ last.arg = r,
                pre |-> IF last.op = "addBookmark" /\ last.arg = r
                        THEN last.pre ELSE <<>>]
    /\ UNCHANGED <<search, calls, uploads>>

-----------------------------------------------------------------------------
(* Recipe retrieval *)

\* getRecipe(id) up to its await: the request is issued (was records, for
\* the properties only, whether id was bookmarked when the call was made)
GetRecipeCall(id) ==
    /\ Len(calls) < MaxCalls
    /\ calls' = Append(calls, [op |-> "getRecipe", arg |-> id,
                               was |-> SomeBookmark(recipe, bookmarks, id),
                               phase |-> "race", timer |-> "armed"])
    /\ last' = [op |-> "getRecipe:call", arg |-> id]
    /\ UNCHANGED <<recipe, bookmarks, search, storage, uploads>>

\* getRecipe with the slip of comparing the bookmark objects, not their
\* identifiers, with id: no bookmark ever matches
getRecipeComparesObjects(rec, bms, id, raw) ==
    [createRecipeObject(raw) EXCEPT !.bookmarked = "false"]

\* the recipe getRecipe(id) installs for the response raw
getRecipe(rec, bms, id, raw) ==
    [createRecipeObject(raw) EXCEPT
        !.bookmarked = IF SomeBookmark(rec, bms, id) THEN "true" ELSE "false"]

\* getRecipe resumes with the parsed response (pos records, for the
\* properties only, the place of the call among the pending ones, which are
\* kept in the order of their issue)
GetRecipeOk(i, raw) ==
    /\ calls[i].op = "getRecipe"
    /\ recipe' = getRecipe(recipe, bookmarks, calls[i].arg, raw)
    /\ bookmarks' = Freeze(recipe, bookmarks)
    /\ calls' = RemoveAt(calls, i)
    /\ last' = [op |-> "getRecipe", arg |-> calls[i].arg, result |-> "ok",
                resp |-> raw, was |-> calls[i].was, pos |-> i]
    /\ UNCHANGED <<search, storage, uploads>>

\* getRecipe with the slip of clearing state.recipe in its catch block
GetRecipeFailClears(i, err) ==
    /\ calls[i].op = "getRecipe"
    /\ recipe' = EmptyRecipe
    /\ bookmarks' = Freeze(recipe, bookmarks)
    /\ calls' = RemoveAt(calls, i)
    /\ last' = [op |-> "getRecipe", arg |-> calls[i].arg, result |-> err]
    /\ UNCHANGED <<search, storage, uploads>>

\* getRecipe resumes with the AJAX failure and rethrows it
GetRecipeFail(i, err) ==
    /\ calls[i].op = "getRecipe"
    /\ calls' = RemoveAt(calls, i)
    /\ last' = [op |-> "getRecipe", arg |-> calls[i].arg, result |-> err]
    /\ UNCHANGED <<recipe, bookmarks, search, storage, uploads>>

-----------------------------------------------------------------------------
(* Serving-quantity scaler *)

NewServings == {Num(n) : n \in 0..MaxServings}

\* updateServings with the slip of storing the new servings before the loop:
\* the quantities are divided by the new servings
updateServingsNewDivisor(rec, newServings) ==
    [rec EXCEPT
        !.ingredients = [i \in 1..Len(@) |->
            [@[i] EXCEPT !.quantity = Div(Mul(@, newServings), newServings)]],
        !.servings = newServings]

\* the recipe after updateServings(newServings): every quantity is scaled
\* with the servings the recipe had before the call
updateServings(rec, newServings) ==
    [rec EXCEPT
        !.ingredients = [i \in 1..Len(@) |->
            [@[i] EXCEPT !.quantity = Div(Mul(@, newServings), rec.servings)]],
        !.servings = newServings]

\* no quantity of the recipe exceeds the numbers the model represents
Small(rec) ==
    \A i \in 1..Len(rec.ingredients) :
        LET q == rec.ingredients[i].quantity
        IN  q.k = "num" => Abs(q.n) <= MaxNum /\ q.d <= MaxNum

UpdateServings(newServings) ==
    /\ recipe.id # Undefined
    /\ Small(updateServings(recipe, newServings))
    /\ recipe' = updateServings(recipe, newServings)
    /\ last' = [op |-> "updateServings", arg |-> newServings, result |-> "ok",
                pre |-> recipe,
                chained |-> last.op = "updateServings" /\ last.result = "ok"]
    /\ UNCHANGED <<bookmarks, search, storage, calls, uploads>>

\* state.recipe is still {}: state.recipe.ingredients.forEach throws
UpdateServingsThrows(newServings) ==
    /\ recipe.id = Undefined
    /\ last' = [op |-> "updateServings", arg |-> newServings,
                result |-> "TypeError"]
    /\ UNCHANGED <<recipe, bookmarks, search, storage, calls, uploads>>

-----------------------------------------------------------------------------
(* Recipe upload.  A form value is a sequence of characters. *)

RECURSIVE Split(_)
\* value.split(',')
Split(s) ==
    IF \A i \in 1..Len(s) : s[i] # ","
    THEN <<s>>
    ELSE LET i == CHOOSE j \in 1..Len(s) :
                    s[j] = "," /\ \A h \in 1..(j - 1) : s[h] # ","
         IN  <<SubSeq(s, 1, i - 1)>> \o Split(SubSeq(s, i + 1, Len(s)))

RECURSIVE Trim(_)
\* element.trim()
Trim(s) ==
    IF s = <<>> THEN s
    ELSE IF Head(s) = " " THEN Trim(Tail(s))
    ELSE IF s[Len(s)] = " " THEN Trim(SubSeq(s, 1, Len(s) - 1))
    ELSE s

Digits == ("1" :> 1) @@ ("2" :> 2)

RECURSIVE Decimal(_)
\* the value of a non-empty sequence of digits
Decimal(s) ==
    IF Len(s) = 1 THEN Digits[s[1]]
    ELSE 10 * Decimal(SubSeq(s, 1, Len(s) - 1)) + Digits[s[Len(s)]]

\* Number(quantity) for a trimmed, non-empty token
Number(s) ==
    IF \A i \in 1..Len(s) : s[i] \in DOMAIN Digits THEN Num(Decimal(s)) ELSE NaN

RECURSIVE Strings(_, _)
\* the sequences over alphabet of length at most n
Strings(alphabet, n) ==
    IF n = 0 THEN {<<>>}
    ELSE LET shorter == Strings(alphabet, n - 1)
         IN  shorter \cup {Append(s, c) : s \in shorter, c \in alphabet}

Field(prefix, suffix, value) ==
    [prefix |-> prefix, suffix |-> suffix, value |-> value]

\* the submitted forms: Object.entries(newRecipe) in the order of the form
UploadForms ==
    { << Field("title", "", <<"2", ",", "2">>),
         Field("servings", "", <<"4">>),
         Field("ingredient", "-1", v1),
         Field("ingredient", "-2", v2) >> :
        v1 \in Strings({",", "2"}, MaxFieldLen)
                \cup {<<" ", "2", " ", ",", "k", " ", ",", " ", "f">>},
        v2 \in {<<>>, <<",", ",">>, <<"1", "2">>} }

\* entry[0].startsWith('ingredient') && entry[1] !== ''
IsIngredientEntry(e) == e.prefix = "ingredient" /\ e.value # <<>>

\* ing[1].split(',').map(element => element.trim())
IngArr(e) == LET t == Split(e.value) IN [i \in 1..Len(t) |-> Trim(t[i])]

\* some ingredient entry has ingArr.length !== 3: the map throws
WrongFormat(form) ==
    \E i \in 1..Len(form) : IsIngredientEntry(form[i]) /\ Len(IngArr(form[i])) # 3

\* the ingredients of the request body
FormIngredients(form) ==
    LET kept == SelectSeq(form, IsIngredientEntry)
    IN  [i \in 1..Len(kept) |->
            LET a == IngArr(kept[i])
            IN  Ingredient(IF a[1] # <<>> THEN Number(a[1]) ELSE Null, a[2], a[3])]

Pending(op) == Cardinality({i \in 1..Len(calls) : calls[i].op = op})

\* uploadRecipe with the slip of sending the request before the fields are
\* checked
UploadRecipeInvalidAfterPost(form) ==
    /\ WrongFormat(form)
    /\ Len(calls) < MaxCalls
    /\ calls' = Append(calls, [op |-> "uploadRecipe", arg |-> "POST",
                               phase |-> "race", timer |-> "armed"])
    /\ last' = [op |-> "uploadRecipe", result |-> "ValidationError"]
    /\ UNCHANGED <<recipe, bookmarks, search, storage, uploads>>

\* uploadRecipe(newRecipe) throws in the map, before AJAX is called
UploadRecipeInvalid(form) ==
    /\ WrongFormat(form)
    /\ last' = [op |-> "uploadRecipe", result |-> "ValidationError"]
    /\ UNCHANGED <<recipe, bookmarks, search, storage, calls, uploads>>

\* uploadRecipe(newRecipe) up to its await: the POST request is issued
UploadRecipeCall(form) ==
    /\ ~WrongFormat(form)
    /\ Len(calls) < MaxCalls
    /\ uploads + Pending("uploadRecipe") < MaxUploads
    /\ calls' = Append(calls, [op |-> "uploadRecipe", arg |-> "POST",
                               phase |-> "race", timer |-> "armed"])
    /\ last' = [op |-> "uploadRecipe:call", ingredients |-> FormIngredients(form)]
    /\ UNCHANGED <<recipe, bookmarks, search, storage, uploads>>

\* uploadRecipe with the slip of not bookmarking the new recipe
uploadRecipeNoBookmark(st, raw) ==
    [recipe |-> createRecipeObject(raw),
     bookmarks |-> Freeze(st.recipe, st.bookmarks),
     storage |-> st.storage]

\* the store after uploadRecipe has resumed with the response raw
uploadRecipe(st, raw) ==
    addBookmark([recipe |-> createRecipeObject(raw),
                 bookmarks |-> Freeze(st.recipe, st.bookmarks),
                 storage |-> st.storage], Cur)

\* uploadRecipe resumes with the parsed response: the API has created the
\* recipe under a new identifier
UploadRecipeOk(i, raw) ==
    /\ calls[i].op = "uploadRecipe"
    /\ LET st == uploadRecipe(Store, raw)
       IN  /\ recipe' = st.recipe
           /\ bookmarks' = st.bookmarks
           /\ storage' = st.storage
    /\ calls' = RemoveAt(calls, i)
    /\ uploads' = uploads + 1
    /\ last' = [op |-> "uploadRecipe", result |-> "ok", resp |-> raw]
    /\ UNCHANGED search

\* uploadRecipe resumes with the AJAX failure and rethrows it
UploadRecipeFail(i, err) ==
    /\ calls[i].op = "uploadRecipe"
    /\ calls' = RemoveAt(calls, i)
    /\ last' = [op |-> "uploadRecipe", result |-> err]
    /\ UNCHANGED <<recipe, bookmarks, search, storage, uploads>>

-----------------------------------------------------------------------------
(* Module start and the specifications *)

InitialSearch ==
    [query |-> "", results |-> <<>>, resultsPerPage |-> RESULTS_PER_PAGE,
     page |-> 1]

\* what an earlier session may have left under 'bookmarks'
InitialItems ==
    {NoItem, [has |-> TRUE, items |-> <<>>]}
        \cup { [has |-> TRUE,
                items |-> <<[createRecipeObject(raw) EXCEPT !.bookmarked = "true"]>>] :
               raw \in RawRecipes("b") }

\* the state once the module has been evaluated, init() included
Init ==
    /\ storage \in InitialItems
    /\ recipe = EmptyRecipe
    /\ bookmarks = init(storage)
    /\ search = InitialSearch
    /\ calls = <<>>
    /\ uploads = 0
    /\ last = [op |-> "init"]

\* the page is loaded again: the module starts over on the same storage
Restart ==
    /\ recipe' = EmptyRecipe
    /\ bookmarks' = init(storage)
    /\ search' = InitialSearch
    /\ calls' = <<>>
    /\ last' = [op |-> "init"]
    /\ UNCHANGED <<storage, uploads>>

RecipeActions ==
    \/ \E id \in RecipeIds \cup {UploadId(n) : n \in 1..uploads} : GetRecipeCall(id)
    \/ \E i \in 1..Len(calls) : \E raw \in RawRecipes(calls[i].arg) : GetRecipeOk(i, raw)
    \/ \E i \in 1..Len(calls), err \in NetworkErrors : GetRecipeFail(i, err)

\* the store's functions called with any recipe object
BookmarkActions ==
    \/ \E r \in BookmarkArgs : AddBookmark(r)
    \/ \E r \in BookmarkArgs : DeleteBookmark(r)

\* the store's functions called with state.recipe, as controlAddBookmark does
CurrentBookmarkActions ==
    \/ recipe.id # Undefined /\ AddBookmark(Cur)
    \/ recipe.id # Undefined /\ DeleteBookmark(Cur)

UploadActions ==
    \/ \E form \in UploadForms : UploadRecipeInvalid(form)
    \/ \E form \in UploadForms : UploadRecipeCall(form)
    \/ \E i \in 1..Len(calls) : \E raw \in RawRecipes(UploadId(uploads + 1)) :
            UploadRecipeOk(i, raw)
    \/ \E i \in 1..Len(calls), err \in NetworkErrors : UploadRecipeFail(i, err)

ServingsActions ==
    \/ \E n \in NewServings : UpdateServings(n)
    \/ \E n \in NewServings : UpdateServingsThrows(n)

SearchActions ==
    \/ \E q \in Queries : GetSearchResultsCall(q)
    \/ \E i \in 1..Len(calls) : \E rs \in SearchResponses(calls[i].arg) :
            GetSearchResultsOk(i, rs)
    \/ \E i \in 1..Len(calls), err \in NetworkErrors : GetSearchResultsFail(i, err)
    \/ \E page \in PageArgs : GetSearchResultsPage(page)
    \/ GetSearchResultsPageDefault

\* recipes and bookmarks
Next == RecipeActions \/ BookmarkActions \/ Restart

Spec == Init /\ [][Next]_vars

\* a recipe has been loaded by getRecipe
InitLoaded ==
    /\ storage \in InitialItems
    /\ bookmarks = init(storage)
    /\ \E id \in RecipeIds : \E raw \in RawRecipes(id) :
        /\ recipe = getRecipe(EmptyRecipe, bookmarks, id, raw)
        /\ last = [op |-> "getRecipe", arg |-> id, result |-> "ok", resp |-> raw,
                   was |-> SomeBookmark(EmptyRecipe, bookmarks, id), pos |-> 1]
    /\ search = InitialSearch
    /\ calls = <<>>
    /\ uploads = 0

\* the servings scaler and the bookmarks of the current recipe
NextServings == ServingsActions \/ CurrentBookmarkActions \/ Restart

SpecServings == InitLoaded /\ [][NextServings]_vars

\* uploads and the bookmarks of the current recipe
NextUpload == UploadActions \/ CurrentBookmarkActions \/ Restart

SpecUpload == InitLoaded /\ [][NextUpload]_vars

\* search and pagination
NextSearch == SearchActions \/ Restart

SpecSearch == Init /\ [][NextSearch]_vars

\* controlAddBookmark with the slip of testing the flag of the bookmark
\* button's first rendering, false, and not that of the current recipe
ControlAddBookmarkAdds ==
    recipe.id # Undefined /\ AddBookmark(Cur)

\* controlAddBookmark, the handler of the bookmark button of the recipe
\* view: addBookmark when the current recipe is not flagged, deleteBookmark
\* otherwise
ControlAddBookmark ==
    \/ recipe.id # Undefined /\ recipe.bookmarked # "true" /\ AddBookmark(Cur)
    \/ recipe.id # Undefined /\ recipe.bookmarked = "true" /\ DeleteBookmark(Cur)

\* the forms submitted to controlAddRecipe: at most one ingredient field is
\* filled in
ControlForms == {form \in UploadForms : form[3].value = <<>>}

\* controlAddRecipe calls uploadRecipe with the submitted form
ControlAddRecipe ==
    \/ \E form \in ControlForms : UploadRecipeInvalid(form)
    \/ \E form \in ControlForms : UploadRecipeCall(form)
    \/ \E i \in 1..Len(calls) : \E raw \in RawRecipes(UploadId(uploads + 1)) :
            UploadRecipeOk(i, raw)
    \/ \E i \in 1..Len(calls), err \in NetworkErrors : UploadRecipeFail(i, err)

\* controlRecipes calls getRecipe with the identifier of the URL's hash: that
\* of the recipe an earlier session may have bookmarked, or of an uploaded one
ControlRecipes ==
    \/ \E id \in {"b"} \cup {UploadId(n) : n \in 1..uploads} : GetRecipeCall(id)
    \/ \E i \in 1..Len(calls) : \E raw \in RawRecipes(calls[i].arg) : GetRecipeOk(i, raw)
    \/ \E i \in 1..Len(calls), err \in NetworkErrors : GetRecipeFail(i, err)

\* the store as the controller drives it: recipe loads, the bookmark button
\* and uploads
NextController ==
    ControlRecipes \/ ControlAddBookmark \/ ControlAddRecipe \/ Restart

SpecController == Init /\ [][NextController]_vars

-----------------------------------------------------------------------------
(* The network client: AJAX races the request against the timer, then      *)
(* awaits response.json().  A call record is in phase "race" until the     *)
(* race settles, in phase "json" while AJAX awaits the body, and in phase  *)
(* "abandoned" when the timer has won and the request is left in flight.   *)

\* the AJAX call of the record c has not settled
Waiting(c) == c.phase \in {"race", "json"}

\* the request wins the race: fetch has resolved with the response and AJAX
\* goes on to await response.json(); the timer stays armed
FetchResolves(i) ==
    /\ calls[i].phase = "race"
    /\ calls' = [calls EXCEPT ![i].phase = "json"]
    /\ UNCHANGED <<recipe, bookmarks, search, storage, uploads, last>>

\* AJAX throws err and the store function that called it rethrows
Rethrows(i, err) == GetRecipeFail(i, err) \/ GetSearchResultsFail(i, err)

\* the request settles the race by rejecting: fetch has failed
FetchRejects(i) == calls[i].phase = "race" /\ Rethrows(i, "TypeError")

\* the timer wins the race: AJAX throws the timeout error, which the caller
\* rethrows, and the request stays in flight with nobody awaiting it
TimerWins(i) ==
    /\ calls[i].phase = "race"
    /\ calls' = [calls EXCEPT ![i].phase = "abandoned", ![i].timer = "fired"]
    /\ last' = [op |-> calls[i].op, arg |-> calls[i].arg,
                result |-> "TimeoutError"]
    /\ UNCHANGED <<recipe, bookmarks, search, storage, uploads>>

\* the timer fires after the race was settled by the request: its rejection
\* reaches nobody, and AJAX keeps awaiting response.json()
TimerFiresLate(i) ==
    /\ calls[i].phase = "json" /\ calls[i].timer = "armed"
    /\ calls' = [calls EXCEPT ![i].timer = "fired"]
    /\ UNCHANGED <<recipe, bookmarks, search, storage, uploads, last>>

\* the parsed bodies of the responses to a search: those of one page
ShortResponses(q) == {rs \in SearchResponses(q) : Len(rs) < RESULTS_PER_PAGE}

\* response.json() resolves and response.ok holds: AJAX returns the data and
\* the caller goes on after its await
JsonResolves(i) ==
    /\ calls[i].phase = "json"
    /\ \/ \E raw \in RawRecipes(calls[i].arg) : GetRecipeOk(i, raw)
       \/ \E rs \in ShortResponses(calls[i].arg) : GetSearchResultsOk(i, rs)

\* response.json() resolves and response.ok does not hold
JsonResolvesNotOk(i) == calls[i].phase = "json" /\ Rethrows(i, "HttpError")

\* response.json() rejects: the body is not JSON
JsonRejects(i) == calls[i].phase = "json" /\ Rethrows(i, "SyntaxError")

\* an abandoned request with the slip of resuming its caller when the
\* response arrives, as if the race were still open
AbandonedSettlesResumes(i) ==
    /\ calls[i].phase = "abandoned"
    /\ \/ \E raw \in RawRecipes(calls[i].arg) : GetRecipeOk(i, raw)
       \/ \E rs \in ShortResponses(calls[i].arg) : GetSearchResultsOk(i, rs)

\* the abandoned request settles: the race it was part of is settled, so
\* no code runs
AbandonedSettles(i) ==
    /\ calls[i].phase = "abandoned"
    /\ calls' = RemoveAt(calls, i)
    /\ last' = [op |-> "AJAX:abandoned", arg |-> calls[i].arg, by |-> calls[i].op]
    /\ UNCHANGED <<recipe, bookmarks, search, storage, uploads>>

\* recipe loads and searches with the steps of AJAX
NextAjax ==
    \/ \E id \in RecipeIds : GetRecipeCall(id)
    \/ \E query \in Queries : GetSearchResultsCall(query)
    \/ \E i \in 1..Len(calls) : FetchResolves(i)
    \/ \E i \in 1..Len(calls) : FetchRejects(i)
    \/ \E i \in 1..Len(calls) : TimerWins(i)
    \/ \E i \in 1..Len(calls) : TimerFiresLate(i)
    \/ \E i \in 1..Len(calls) : JsonResolves(i)
    \/ \E i \in 1..Len(calls) : JsonResolvesNotOk(i)
    \/ \E i \in 1..Len(calls) : JsonRejects(i)
    \/ \E i \in 1..Len(calls) : AbandonedSettles(i)

SpecAjax == Init /\ [][NextAjax]_vars

-----------------------------------------------------------------------------
(* Properties *)

\* the results at the 0-based indices i with (page-1)*perPage <= i < page*perPage
\* that exist, in order
IndexWindow(results, page, perPage) ==
    LET idx == {i \in 0..(Len(results) - 1) :
                    (page - 1) * perPage <= i /\ i < page * perPage}
    IN  [j \in 1..Cardinality(idx) |-> results[(page - 1) * perPage + j]]

\* ceil(len / perPage)
PageCount(len, perPage) == (len + perPage - 1) \div perPage

\* C1: for every results sequence and every integer page, negative ones
\* included, getSearchResultsPage(page) stores page as the current page and
\* returns exactly the results of the index window of that page, which is
\* empty for every page outside 1..ceil(len/pageSize).
C1_PageIsIndexWindow ==
    last.op = "getSearchResultsPage" =>
        /\ search.page = last.arg
        /\ last.ret = IndexWindow(search.results, last.arg, search.resultsPerPage)
        /\ last.arg \notin 1..PageCount(Len(search.results), search.resultsPerPage)
                => last.ret = <<>>

\* C2: after a successful getRecipe(id) the current recipe is the normalized
\* recipe of the response, and it is flagged as bookmarked exactly when some
\* entry of the bookmark list at that moment has the identifier id, also
\* when the list changed while the request was in flight.
C2_GetRecipeInstallsAndFlags ==
    (last.op = "getRecipe" /\ last.result = "ok") =>
        /\ recipe.id = last.resp.id
        /\ recipe.sourceUrl = last.resp.source_url
        /\ recipe.image = last.resp.image_url
        /\ recipe.ingredients = last.resp.ingredients
        /\ IsInteger(recipe.servings) /\ IsInteger(recipe.cookingTime)
        /\ [recipe EXCEPT !.bookmarked = Undefined] = createRecipeObject(last.resp)
        /\ recipe.bookmarked \in {"true", "false"}
        /\ recipe.bookmarked = "true" <=>
                \E i \in 1..Len(bookmarks) : Deref(recipe, bookmarks[i]).id = last.arg

\* C2 witness: getRecipe has flagged a recipe that was bookmarked while the
\* request was in flight
C2_Witness ==
    /\ last.op = "getRecipe" /\ last.result = "ok"
    /\ recipe.bookmarked = "true" /\ ~last.was

HasId(vals, id) == \E i \in 1..Len(vals) : vals[i].id = id

\* addBookmark(r) immediately followed by deleteBookmark(r) has left the
\* bookmark sequence as it was and the current recipe, if it is r, unflagged
Undone ==
    /\ Values(recipe, bookmarks) = last.pre
    /\ Deref(recipe, last.arg).id = recipe.id => recipe.bookmarked = "false"

\* C3 as stated: for every bookmark list and every recipe r, addBookmark(r)
\* followed immediately by deleteBookmark(r) restores the bookmark sequence
\* (same entries, same order) and leaves the flag of a current recipe with
\* r's identifier false.
C3_AddThenDeleteRestores ==
    (last.op = "deleteBookmark" /\ last.undo) => Undone

\* C3 amended: the same, for every bookmark list that holds no entry with
\* r's identifier before the addBookmark.
C3_AddThenDeleteRestoresFresh ==
    (last.op = "deleteBookmark" /\ last.undo
        /\ ~HasId(last.pre, Deref(recipe, last.arg).id)) => Undone

\* C3 witness: the current recipe was added to a non-empty list that did not
\* hold it, and deleted again
C3_Witness ==
    /\ last.op = "deleteBookmark" /\ last.undo
    /\ last.arg = Cur
    /\ last.pre # <<>>
    /\ ~HasId(last.pre, recipe.id)

\* C4: right after every addBookmark and deleteBookmark the item 'bookmarks'
\* is the serialization of the whole in-memory bookmark sequence, and a module
\* start on that storage yields the same entries in the same order.
C4_StorageRestoresBookmarks ==
    last.op \in {"addBookmark", "deleteBookmark"} =>
        /\ storage.has
        /\ storage.items = JSONStringify(Values(recipe, bookmarks))
        /\ Values(EmptyRecipe, init(storage)) = Values(recipe, bookmarks)

\* C5: when uploadRecipe fails, on a wrongly formatted ingredient field or on
\* a failure of the network client, no step of the call has changed the
\* current recipe, the bookmark list or the persisted bookmarks, and on a
\* wrongly formatted field no request has been issued.
C5_UploadFailureChangesNothing ==
    [][ (last'.op = "uploadRecipe:call"
            \/ (last'.op = "uploadRecipe" /\ last'.result # "ok"))
        => /\ recipe' = recipe /\ bookmarks' = bookmarks /\ storage' = storage
           /\ last'.op = "uploadRecipe"
                => last'.result \in NetworkErrors \cup {"ValidationError"}
           /\ (last'.op = "uploadRecipe" /\ last'.result = "ValidationError")
                => calls' = calls ]_vars

\* C5 witness: an upload was rejected for its format with a recipe loaded and
\* bookmarks stored
C5_Witness ==
    /\ last.op = "uploadRecipe" /\ last.result = "ValidationError"
    /\ recipe.id # Undefined
    /\ bookmarks # <<>> /\ storage.has

\* C6: after every successful uploadRecipe the current recipe is the
\* normalized recipe of the POST response, that same object is the last entry
\* of the bookmark list, it is flagged as bookmarked, and the persisted
\* bookmarks include it.
C6_UploadInstallsAndBookmarks ==
    (last.op = "uploadRecipe" /\ last.result = "ok") =>
        /\ [recipe EXCEPT !.bookmarked = Undefined] = createRecipeObject(last.resp)
        /\ recipe.id = last.resp.id
        /\ recipe.key = last.resp.key
        /\ bookmarks # <<>>
        /\ bookmarks[Len(bookmarks)] = Cur
        /\ recipe.bookmarked = "true"
        /\ storage.has
        /\ \E i \in 1..Len(storage.items) : storage.items[i] = recipe

\* C6 witness: an upload has succeeded on a list that held a bookmark already
C6_Witness ==
    /\ last.op = "uploadRecipe" /\ last.result = "ok"
    /\ Len(bookmarks) >= 2

\* C7: when the network client fails during getRecipe(id), no step of the
\* call has changed the current recipe, its bookmarked flag included, or the
\* bookmark list, and the caller gets the failure.
C7_GetRecipeFailureChangesNothing ==
    [][ (last'.op = "getRecipe:call"
            \/ (last'.op = "getRecipe" /\ last'.result # "ok"))
        => /\ recipe' = recipe /\ bookmarks' = bookmarks /\ storage' = storage
           /\ last'.op = "getRecipe" => last'.result \in NetworkErrors ]_vars

\* C7 witness: a request has timed out with a bookmarked recipe loaded
C7_Witness ==
    /\ last.op = "getRecipe" /\ last.result = "TimeoutError"
    /\ recipe.id # Undefined /\ recipe.bookmarked = "true"
    /\ bookmarks # <<>>

\* C8: updateServings leaves every ingredient whose quantity was null with a
\* null quantity.
C8_NullQuantityStaysNull ==
    (last.op = "updateServings" /\ last.result = "ok") =>
        \A i \in 1..Len(recipe.ingredients) :
            last.pre.ingredients[i].quantity = Null
                => recipe.ingredients[i].quantity = Null

NonZero(x) == x.k = "num" /\ x.n # 0

\* q * n / s for rationals q, n and s # 0, by cross-multiplication
Scaled(q, n, s) == Frac(q.n * n.n * s.d, q.d * n.d * s.n)

\* every number among the quantities of from has become to's, scaled n/s
ScaledBy(from, to, n, s) ==
    /\ Len(to.ingredients) = Len(from.ingredients)
    /\ \A i \in 1..Len(from.ingredients) :
        from.ingredients[i].quantity.k = "num" =>
            to.ingredients[i].quantity = Scaled(from.ingredients[i].quantity, n, s)

Exact(rec) ==
    \A i \in 1..Len(rec.ingredients) :
        rec.ingredients[i].quantity.k = "num" => rec.ingredients[i].quantity.d = 1

\* C9: with non-zero servings s, updateServings(n) turns every quantity q
\* that is a number into q*n/s, with the servings of before the call for all
\* ingredients, and sets the servings to n; and where the divisions are exact,
\* rescaling s -> n -> m gives the quantities of rescaling s -> m directly.
C9_ServingsScaleLinearly ==
    [][ (last'.op = "updateServings" /\ last'.result = "ok"
            /\ NonZero(recipe.servings))
        => /\ recipe'.servings = last'.arg
           /\ ScaledBy(recipe, recipe', last'.arg, recipe.servings)
           /\ (last.op = "updateServings" /\ last.result = "ok"
                    /\ NonZero(last.pre.servings)
                    /\ Exact(recipe) /\ Exact(recipe'))
                => ScaledBy(last.pre, recipe', last'.arg, last.pre.servings) ]_vars

\* C9 witness: servings 8 with a quantity of 4, reached by a rescaling, have
\* been rescaled to 2 servings
C9_Witness ==
    /\ last.op = "updateServings" /\ last.result = "ok" /\ last.chained
    /\ last.pre.servings = Num(8)
    /\ last.pre.ingredients[1].quantity = Num(4)
    /\ last.arg = Num(2)
    /\ recipe.ingredients[1].quantity = Num(1)

\* C10: after every successful getSearchResults(query) the stored query is
\* query, the results are the summaries of the response's recipes in the
\* order of the response, the current page is 1, and getSearchResultsPage()
\* returns the first pageSize results.
C10_SearchInstallsResults ==
    (last.op = "getSearchResults" /\ last.result = "ok") =>
        /\ search.query = last.arg
        /\ Len(search.results) = Len(last.resp)
        /\ \A j \in 1..Len(last.resp) :
            /\ search.results[j].id = last.resp[j].id
            /\ search.results[j].title = last.resp[j].title
            /\ search.results[j].publisher = last.resp[j].publisher
            /\ search.results[j].image = last.resp[j].image_url
        /\ search.page = 1
        /\ getSearchResultsPage(search.results, search.page, search.resultsPerPage)
            = SubSeq(search.results, 1,
                     Min2(search.resultsPerPage, Len(search.results)))

\* C12: getSearchResultsPage(p) called twice in a row with the same p, on the
\* same results and page size, returns equal sequences, and the stored
\* current page is p after each of the two calls.
C12_SamePageTwice ==
    [][ (last'.op = "getSearchResultsPage" /\ last'.again)
        => /\ last'.ret = last.ret
           /\ last'.ret = last'.prev
           /\ search.page = last'.arg
           /\ search'.page = last'.arg
           /\ search'.results = search.results ]_vars

\* C12 witness: a page past the first, not the stored one before, was asked
\* for twice in a row and is not empty
C12_Witness ==
    /\ last.op = "getSearchResultsPage" /\ last.again
    /\ last.arg = 2
    /\ last.ret # <<>>

\* a getSearchResults call, the only one in flight, fails right after it was
\* issued
FailsDirectly ==
    /\ last.op = "getSearchResults:call"
    /\ last'.op = "getSearchResults" /\ last'.result # "ok"
    /\ calls' = <<>>

WithoutFirst(rec, refs, id) ==
    LET hits == {i \in 1..Len(refs) : Deref(rec, refs[i]).id = id}
    IN  IF hits = {} THEN refs
        ELSE LET first == CHOOSE i \in hits : \A j \in hits : i <= j
             IN  SubSeq(refs, 1, first - 1) \o SubSeq(refs, first + 1, Len(refs))

\* C17: deleteBookmark(recipe) removes the first entry whose identifier is
\* recipe.id and nothing else: the other entries stay, in their order, and
\* when no entry has that identifier the bookmark list is unchanged.
C17_DeleteRemovesOnlyThatEntry ==
    [][ last'.op = "deleteBookmark"
        => bookmarks' = WithoutFirst(recipe, bookmarks,
                                     Deref(recipe, last'.arg).id) ]_vars

\* results is what getSearchResults stores for some response to query q
IsResponseTo(results, q) ==
    \E rs \in SearchResponses(q) :
        results = [j \in 1..Len(rs) |-> Summary(rs[j])]

\* C18: when getSearchResults calls overlap and their responses arrive in
\* either order, then once all of them have settled the stored results are
\* the response to the stored query, the query of the search issued last,
\* and not the results of an earlier query.
C18_ResultsAnswerStoredQuery ==
    (calls = <<>> /\ last.op = "getSearchResults" /\ last.result = "ok")
        => IsResponseTo(search.results, search.query)

\* two getRecipe calls that were in flight together have both succeeded, one
\* right after the other, and no call is pending
BothLoaded ==
    /\ last.op = "getRecipe" /\ last.result = "ok"
    /\ last'.op = "getRecipe" /\ last'.result = "ok"
    /\ calls # <<>> /\ calls' = <<>>

\* C19: when two getRecipe calls overlap and their responses arrive in
\* either order, then once both have settled the current recipe is the
\* response to the call issued last, not that of the earlier one.
C19_LatestRecipeWins ==
    [][ BothLoaded
        => LET latest == IF last'.pos < last.pos THEN last ELSE last'
           IN  /\ recipe'.id = latest.resp.id
               /\ [recipe' EXCEPT !.bookmarked = Undefined]
                    = createRecipeObject(latest.resp) ]_vars

\* C16: between the operations of the store the array persisted under
\* 'bookmarks' is the serialization of the in-memory bookmark sequence (and
\* with nothing persisted the sequence is empty); so no operation other than
\* addBookmark and deleteBookmark, updateServings on a bookmarked current
\* recipe included, changes an in-memory bookmark entry or makes memory and
\* storage differ.
C16_StorageMirrorsBookmarks ==
    IF storage.has
    THEN storage.items = JSONStringify(Values(recipe, bookmarks))
    ELSE bookmarks = <<>>

\* C13: from persisted bookmarks with pairwise distinct identifiers, after
\* any recipe loads, presses of the bookmark button and uploads made through
\* the controller, in any interleaving with the network completions, the
\* bookmark list holds at most one entry per identifier.
C13_OneEntryPerIdentifier ==
    LET vals == Values(recipe, bookmarks)
    IN  \A i, j \in 1..Len(vals) : vals[i].id = vals[j].id => i = j

\* C13 witness: a recipe bookmarked before it was loaded again, by a call
\* that was in flight with another, is on a list of two
C13_Witness ==
    /\ Len(bookmarks) = 2
    /\ last.op = "getRecipe" /\ last.result = "ok" /\ last.was
    /\ calls # <<>>
    /\ HasId(Values(recipe, bookmarks), recipe.id)

\* C14: whenever a current recipe is loaded, in the store as the controller
\* drives it, the current recipe is flagged as bookmarked exactly when the
\* bookmark list holds an entry with its identifier.
C14_FlagIffListed ==
    recipe.id # Undefined =>
        (recipe.bookmarked = "true"
            <=> HasId(Values(recipe, bookmarks), recipe.id))

\* C14 witness: the button has taken the current recipe, an uploaded one,
\* off a list that still holds another recipe
C14_Witness ==
    /\ last.op = "deleteBookmark" /\ last.arg = Cur
    /\ recipe.id = UploadId(1)
    /\ recipe.bookmarked = "false"
    /\ bookmarks # <<>>

\* C11: every call of the network client settles with one outcome and does
\* not hang: when the timer fires before the fetch resolves the call fails
\* with the timeout error, and once the timer has fired no call is still
\* pending.
C11_NoCallPendingAfterTimer ==
    \A i \in 1..Len(calls) :
        /\ calls[i].timer = "fired" => ~Waiting(calls[i])
        /\ calls[i].phase = "abandoned" => calls[i].timer = "fired"

\* C20: once a request has lost the race to the timer and its caller has got
\* the timeout error, the arrival of the abandoned request's response,
\* whenever it comes, changes neither the current recipe, nor the search
\* state, nor the bookmark list, nor the persisted bookmarks.
C20_AbandonedResponseChangesNothing ==
    [][ (\E i \in 1..Len(calls) :
            calls[i].phase = "abandoned" /\ calls' = RemoveAt(calls, i))
        => /\ recipe' = recipe
           /\ search' = search
           /\ bookmarks' = bookmarks
           /\ storage' = storage ]_vars

\* C20 witness: the response to an abandoned getRecipe has arrived after
\* another recipe was loaded and a search was stored
C20_Witness ==
    /\ last.op = "AJAX:abandoned" /\ last.by = "getRecipe"
    /\ recipe.id # Undefined /\ recipe.id # last.arg
    /\ search.results # <<>>

====
